---- MODULE Spec2Model ----
(***************************************************************************)
(* A model of pathed/__init__.py: the Pathed / Directory / File object     *)
(* graph built over a filesystem subtree, its construction-time scan, the  *)
(* refresh() traversal and the File.hash accessor.                         *)
(*                                                                         *)
(* The filesystem is the environment: a bounded universe of paths, each    *)
(* absent or a directory, a regular file or a special entry, with a        *)
(* modification time and (for files) a content.  The program never writes  *)
(* to it.  Every call of the program is synchronous and single-threaded,   *)
(* so each call is one atomic action.                                      *)
(***************************************************************************)
EXTENDS Integers, Sequences, FiniteSets, TLC

\* ------------------------------------------------------------------ bounds
\* entry names per directory (1..MaxName) and nesting below the top path
MaxName == 1
MaxDepth == 2
\* entries that exist at once below the top path
MaxEntries == 2
\* out-of-band changes made while the caller holds a tree
MaxDrift == 1
\* a file is empty or holds one byte of 1..MaxByte
MaxByte == 1
\* the largest recursive_depth a caller passes (the smallest is -1)
MaxBudget == 0
\* cap of the process-wide counter
MaxFileCount == 2

Names == 1 .. MaxName
Paths == UNION { [1 .. n -> Names] : n \in 0 .. MaxDepth }
Contents == { << >> } \cup { << b >> : b \in 1 .. MaxByte }
Budgets == -1 .. MaxBudget
Top == << >>

VARIABLES
    kind,        \* filesystem: path -> "none" | "dir" | "file" | "other"
    mtime,       \* filesystem: path -> modification time
    content,     \* filesystem: path -> bytes of a regular file
    drift,       \* out-of-band changes made while a tree exists
    root,        \* the root Directory the caller holds: {} or {path}
    nodes,       \* the objects of that tree: path -> object fields
    file_count,  \* the module-level counter
    last,        \* the last call: operation, arguments, result, observations
    clean,       \* no filesystem change since construction / a false refresh
    edited,      \* a node's live mtime changed since the last root refresh
    firstDone    \* the last call was the first root refresh after edits

vars == << kind, mtime, content, drift, root, nodes, file_count, last,
           clean, edited, firstDone >>

NoErr == << >>
EmptyTree == << >>

\* ------------------------------------------------------- filesystem (os.*)
Parent(p) == SubSeq(p, 1, Len(p) - 1)

join(p, item) == Append(p, item)

exists(p) == kind[p] # "none"

isdir(p) == kind[p] = "dir"

isfile(p) == kind[p] = "file"

\* the listing of a directory, in a fixed order (ascending names)
listdir(p) ==
    IF Len(p) < MaxDepth
    THEN SelectSeq([i \in 1 .. MaxName |-> i], LAMBDA i : exists(join(p, i)))
    ELSE << >>

getmtime(p) == mtime[p]

getsize(p) == IF isfile(p) THEN Len(content[p]) ELSE 0

\* a digest is injective on contents and never the empty value
blake3(c) == << 0 >> \o c

Range(s) == { s[i] : i \in 1 .. Len(s) }

\* ------------------------------------------------------------ the objects
\* Pathed.__init__ that drops its parent argument
Pathed_orphan(path, parent, hash_files, dir) ==
    [ path |-> path, parent_dir |-> {}, is_dir |-> dir, is_file |-> ~dir,
      name |-> IF path = Top THEN 0 ELSE path[Len(path)],
      last_refreshed |-> -1,
      last_modified |-> getmtime(path), hash_files |-> hash_files,
      sub_dirs |-> << >>, files |-> << >>, empty |-> FALSE,
      recursive |-> FALSE, recursive_depth |-> 0,
      filesize |-> 0, has_hash |-> FALSE, hash |-> << >> ]

\* One record shape for both variants; a Directory leaves the File fields at
\* their defaults and a File the Directory fields.  has_hash is whether the
\* attribute File.__hash was ever assigned.  name is the last component of
\* the path (0 for the top path); created_at, which nothing reads, is left
\* out.
Pathed(path, parent, hash_files, dir) ==
    [ path |-> path, parent_dir |-> parent, is_dir |-> dir, is_file |-> ~dir,
      name |-> IF path = Top THEN 0 ELSE path[Len(path)],
      last_refreshed |-> -1,
      last_modified |-> getmtime(path), hash_files |-> hash_files,
      sub_dirs |-> << >>, files |-> << >>, empty |-> FALSE,
      recursive |-> FALSE, recursive_depth |-> 0,
      filesize |-> 0, has_hash |-> FALSE, hash |-> << >> ]

File_hash_file(p) == IF Len(content[p]) > 0 THEN blake3(content[p]) ELSE << >>

\* File.__calculate_hash_and_size on the object at p; err when open() or
\* getsize() fails
File_calculate_hash_and_size(p, ns) ==
    IF ns[p].hash_files /\ ~isfile(p)
    THEN [ nodes |-> ns,
           err |-> << IF exists(p) THEN "IsADirectoryError"
                      ELSE "FileNotFoundError", p >> ]
    ELSE LET n1 == IF ns[p].hash_files
                   THEN [ns EXCEPT ![p].hash = File_hash_file(p),
                                   ![p].has_hash = TRUE]
                   ELSE ns
         IN  IF ~exists(p)
             THEN [ nodes |-> n1, err |-> << "FileNotFoundError", p >> ]
             ELSE [ nodes |-> [n1 EXCEPT ![p].filesize = getsize(p)],
                    err |-> NoErr ]

\* the path_method File.__init__ hands to Pathed.__init__
File_path_method(p) == isfile(p)

\* File.__init__ that counts the File itself
File_init_counting(path, parent_dir, st) ==
    IF ~File_path_method(path)
    THEN [st EXCEPT !.err = << "FileExistsError", path >>]
    ELSE LET self == Pathed(path, parent_dir, FALSE, FALSE)
             c == File_calculate_hash_and_size(path, (path :> self) @@ st.nodes)
         IN  [st EXCEPT !.nodes = c.nodes, !.err = c.err,
                        !.file_count = @ + 1]

\* File.__init__(path, parent_dir): hash_files is left at Pathed's default
File_init(path, parent_dir, st) ==
    IF ~File_path_method(path)
    THEN [st EXCEPT !.err = << "FileExistsError", path >>]
    ELSE LET self == Pathed(path, parent_dir, FALSE, FALSE)
             c == File_calculate_hash_and_size(path, (path :> self) @@ st.nodes)
         IN  [st EXCEPT !.nodes = c.nodes, !.err = c.err]

\* os.path.exists in the place of os.path.isdir
Directory_path_method_exists(p) == exists(p)

\* the path_method Directory.__init__ hands to Pathed.__init__
Directory_path_method(p) == isdir(p)

\* no test of the budget at all
populate_budget_always(d) == TRUE

\* `> 0` in the place of `>= 0`
populate_budget_positive(d) == d > 0

\* the test of line 117
populate_budget(d) == d >= 0

RECURSIVE Directory_init(_, _, _, _, _, _)
RECURSIVE Directory_populate_skip(_, _, _, _)
RECURSIVE Directory_populate(_, _, _, _)

\* the loop of Directory.__populate with the else branch dropped
Directory_populate_skip(self, items, i, st) ==
    IF st.err # NoErr \/ i > Len(items) THEN st
    ELSE LET item_path == join(self, items[i]) IN
      IF isdir(item_path)
      THEN IF populate_budget(st.nodes[self].recursive_depth)
           THEN LET s2 == Directory_init(item_path, {self},
                              st.nodes[self].hash_files,
                              st.nodes[self].recursive,
                              st.nodes[self].recursive_depth - 1, st)
                IN  IF s2.err # NoErr THEN s2
                    ELSE Directory_populate_skip(self, items, i + 1,
                           [s2 EXCEPT !.nodes[self].sub_dirs =
                                          Append(@, item_path)])
           ELSE Directory_populate_skip(self, items, i + 1, st)
      ELSE IF isfile(item_path)
      THEN LET s2 == File_init(item_path, {self}, st)
           IN  IF s2.err # NoErr THEN s2
               ELSE Directory_populate_skip(self, items, i + 1,
                      [s2 EXCEPT !.nodes[self].files = Append(@, item_path),
                                 !.file_count = @ + 1])
      ELSE Directory_populate_skip(self, items, i + 1, st)

\* the loop of Directory.__populate from its i-th item on; st carries the
\* objects created so far, the counter, the listings taken and the exception
Directory_populate(self, items, i, st) ==
    IF st.err # NoErr \/ i > Len(items) THEN st
    ELSE LET item_path == join(self, items[i]) IN
      IF isdir(item_path)
      THEN IF populate_budget(st.nodes[self].recursive_depth)
           THEN LET s2 == Directory_init(item_path, {self},
                              st.nodes[self].hash_files,
                              st.nodes[self].recursive,
                              st.nodes[self].recursive_depth - 1, st)
                IN  IF s2.err # NoErr THEN s2
                    ELSE Directory_populate(self, items, i + 1,
                           [s2 EXCEPT !.nodes[self].sub_dirs =
                                          Append(@, item_path)])
           ELSE Directory_populate(self, items, i + 1, st)
      ELSE IF isfile(item_path)
      THEN LET s2 == File_init(item_path, {self}, st)
           IN  IF s2.err # NoErr THEN s2
               ELSE Directory_populate(self, items, i + 1,
                      [s2 EXCEPT !.nodes[self].files = Append(@, item_path),
                                 !.file_count = @ + 1])
      ELSE [st EXCEPT !.err = << "EnvironmentError", item_path >>]

\* Directory.__init__ that descends only when recursive is set
Directory_init_flat(path, parent_dir, hash_files, recursive, recursive_depth, st) ==
    IF ~Directory_path_method(path)
    THEN [st EXCEPT !.err = << "NotADirectoryError", path >>]
    ELSE LET items == listdir(path)
             self == [Pathed(path, parent_dir, FALSE, TRUE) EXCEPT
                         !.recursive = recursive,
                         !.recursive_depth =
                             IF recursive THEN recursive_depth ELSE -1,
                         !.empty = (Len(items) = 0)]
         IN  Directory_populate(path, items, 1,
                [st EXCEPT !.nodes = (path :> self) @@ @,
                           !.scanned = @ \cup {path}])

\* Directory.__init__ with the assignment of lines 111-112 left out
Directory_init_not_empty(path, parent_dir, hash_files, recursive, recursive_depth, st) ==
    IF ~Directory_path_method(path)
    THEN [st EXCEPT !.err = << "NotADirectoryError", path >>]
    ELSE LET items == listdir(path)
             self == [Pathed(path, parent_dir, FALSE, TRUE) EXCEPT
                         !.recursive = recursive,
                         !.recursive_depth = recursive_depth]
         IN  Directory_populate(path, items, 1,
                [st EXCEPT !.nodes = (path :> self) @@ @,
                           !.scanned = @ \cup {path}])

\* Directory.__init__: hash_files is not forwarded to Pathed.__init__
Directory_init(path, parent_dir, hash_files, recursive, recursive_depth, st) ==
    IF ~Directory_path_method(path)
    THEN [st EXCEPT !.err = << "NotADirectoryError", path >>]
    ELSE LET items == listdir(path)
             self == [Pathed(path, parent_dir, FALSE, TRUE) EXCEPT
                         !.recursive = recursive,
                         !.recursive_depth = recursive_depth,
                         !.empty = (Len(items) = 0)]
         IN  Directory_populate(path, items, 1,
                [st EXCEPT !.nodes = (path :> self) @@ @,
                           !.scanned = @ \cup {path}])

\* ---------------------------------------------------------------- refresh
\* Pathed.refresh that also stamps __last_refreshed on every call
Pathed_refresh_stamp(p, ns) ==
    LET n1 == [ns EXCEPT ![p].last_refreshed = ns[p].last_modified] IN
    IF ~exists(p)
    THEN [ nodes |-> ns, refreshed |-> FALSE,
           err |-> << "FileNotFoundError", p >>, visited |-> {p} ]
    ELSE LET file_last_modified == getmtime(p)
             refreshed == ns[p].last_modified # file_last_modified
         IN  [ nodes |-> IF refreshed
                         THEN [n1 EXCEPT ![p].last_modified = file_last_modified]
                         ELSE n1,
               refreshed |-> refreshed, err |-> NoErr, visited |-> {p} ]

\* Pathed.refresh comparing the live time with __last_refreshed
Pathed_refresh_stale(p, ns) ==
    IF ~exists(p)
    THEN [ nodes |-> ns, refreshed |-> FALSE,
           err |-> << "FileNotFoundError", p >>, visited |-> {p} ]
    ELSE LET file_last_modified == getmtime(p)
             refreshed == ns[p].last_refreshed # file_last_modified
         IN  [ nodes |-> IF refreshed
                         THEN [ns EXCEPT ![p].last_modified = file_last_modified]
                         ELSE ns,
               refreshed |-> refreshed, err |-> NoErr, visited |-> {p} ]

\* Pathed.refresh on the object at p: the objects after the call, its
\* result, the exception of os.path.getmtime and the objects visited
Pathed_refresh(p, ns) ==
    IF ~exists(p)
    THEN [ nodes |-> ns, refreshed |-> FALSE,
           err |-> << "FileNotFoundError", p >>, visited |-> {p} ]
    ELSE LET file_last_modified == getmtime(p)
             refreshed == ns[p].last_modified # file_last_modified
         IN  [ nodes |-> IF refreshed
                         THEN [ns EXCEPT ![p].last_modified = file_last_modified]
                         ELSE ns,
               refreshed |-> refreshed, err |-> NoErr, visited |-> {p} ]

\* File.refresh
File_refresh(p, ns) ==
    LET r == Pathed_refresh(p, ns) IN
    IF r.err # NoErr \/ ~r.nodes[p].hash_files THEN r
    ELSE IF ~r.nodes[p].has_hash
    THEN [r EXCEPT !.err = << "AttributeError", p >>]
    ELSE LET old_hash == r.nodes[p].hash
             c == File_calculate_hash_and_size(p, r.nodes)
         IN  [ nodes |-> c.nodes, err |-> c.err, visited |-> r.visited,
               refreshed |-> IF c.err = NoErr /\ old_hash # c.nodes[p].hash
                             THEN TRUE ELSE r.refreshed ]

RECURSIVE Directory_refresh(_, _)
RECURSIVE refresh_children(_, _, _)

\* the two loops of Directory.refresh over children[i..]: `refreshed or
\* child.refresh()` calls child.refresh() only while refreshed is false
refresh_children(children, i, r) ==
    IF r.err # NoErr \/ i > Len(children) THEN r
    ELSE IF r.refreshed THEN refresh_children(children, i + 1, r)
    ELSE LET c == IF r.nodes[children[i]].is_dir
                  THEN Directory_refresh(children[i], r.nodes)
                  ELSE File_refresh(children[i], r.nodes)
         IN  refresh_children(children, i + 1,
                [ nodes |-> c.nodes, refreshed |-> c.refreshed,
                  err |-> c.err, visited |-> r.visited \cup c.visited ])

\* Directory.refresh that stops after Pathed.refresh
Directory_refresh_self_only(p, ns) == Pathed_refresh(p, ns)

\* Directory.refresh that first drops the files whose path is gone
Directory_refresh_prune(p, ns) ==
    LET live == [ns EXCEPT ![p].files = SelectSeq(@, LAMBDA f : exists(f))]
    IN  refresh_children(live[p].sub_dirs \o live[p].files, 1,
                         Pathed_refresh(p, live))

\* Directory.refresh without its second loop
Directory_refresh_no_files(p, ns) ==
    refresh_children(ns[p].sub_dirs, 1, Pathed_refresh(p, ns))

Directory_refresh(p, ns) ==
    refresh_children(ns[p].sub_dirs \o ns[p].files, 1, Pathed_refresh(p, ns))

refresh(p, ns) ==
    IF ns[p].is_dir THEN Directory_refresh(p, ns) ELSE File_refresh(p, ns)

\* the `hash` property of the File at p
File_hash(p, ns) ==
    LET c == File_calculate_hash_and_size(p, ns) IN
    IF c.err # NoErr THEN [ nodes |-> c.nodes, err |-> c.err, ret |-> << >> ]
    ELSE IF ~c.nodes[p].has_hash
    THEN [ nodes |-> c.nodes, err |-> << "AttributeError", p >>, ret |-> << >> ]
    ELSE [ nodes |-> c.nodes, err |-> NoErr, ret |-> c.nodes[p].hash ]

\* Pathed.has_parent of the object at p: parent_dir is {} for None
has_parent(p, ns) == ns[p].parent_dir # {}

\* ------------------------------------------------------- observation terms
\* the objects of the subtree of the object at p
RECURSIVE Subtree(_, _)
Subtree(p, ns) ==
    {p} \cup UNION { Subtree(q, ns) : q \in Range(ns[p].sub_dirs) }
        \cup Range(ns[p].files)

\* the object at p differs from the live state of its path
Stale(p, ns) ==
    /\ exists(p)
    /\ \/ ns[p].last_modified # getmtime(p)
       \/ ns[p].is_file /\ ns[p].hash_files /\ isfile(p)
            /\ ns[p].hash # File_hash_file(p)

Entries == { p \in Paths : p # Top /\ exists(p) }

\* the entries at any depth below p
Below(p) == { q \in Entries : Len(q) > Len(p) /\ SubSeq(q, 1, Len(p)) = p }

DirEntries(p) == { q \in Below(p) : Len(q) = Len(p) + 1 /\ isdir(q) }

FileEntries(p) == { q \in Below(p) : Len(q) = Len(p) + 1 /\ isfile(q) }

OtherEntries(p) ==
    { q \in Below(p) : Len(q) = Len(p) + 1 /\ ~isdir(q) /\ ~isfile(q) }

NoLast ==
    [ op |-> "init", path |-> Top, hash_files |-> FALSE, err |-> NoErr,
      ret |-> FALSE, hash |-> << >>, visited |-> {}, scanned |-> {},
      created |-> {}, counted |-> 0, preStale |-> FALSE, preClean |-> FALSE,
      afterEdit |-> FALSE, second |-> FALSE, changed |-> FALSE,
      returned |-> FALSE ]

\* ------------------------------------------------------------------- Init
Init ==
    /\ kind = [p \in Paths |-> IF p = Top THEN "dir" ELSE "none"]
    /\ mtime = [p \in Paths |-> 0]
    /\ content = [p \in Paths |-> << >>]
    /\ drift = 0
    /\ root = {}
    /\ nodes = EmptyTree
    /\ file_count = 0
    /\ last = NoLast
    /\ clean = FALSE
    /\ edited = FALSE
    /\ firstDone = FALSE

\* ------------------------------------------------- the environment's steps
\* what an out-of-band change does to the observation variables
EnvGhost ==
    /\ root # {} => drift < MaxDrift
    /\ drift' = IF root = {} THEN drift ELSE drift + 1
    /\ last' = [NoLast EXCEPT !.op = "env"]
    /\ clean' = FALSE
    /\ firstDone' = FALSE
    /\ edited' = (edited \/ \E n \in DOMAIN nodes :
                     exists(n) /\ kind'[n] # "none" /\ mtime'[n] # mtime[n])
    /\ UNCHANGED << root, nodes, file_count >>

\* mkdir / create a file / mknod; a path keeps the modification time it
\* had when it was last there, so that times never run backwards
MkEntry(p, k) ==
    /\ p # Top /\ ~exists(p) /\ isdir(Parent(p))
    /\ Cardinality(Entries) < MaxEntries
    /\ kind' = [kind EXCEPT ![p] = k]
    /\ UNCHANGED << mtime, content >>
    /\ EnvGhost

\* rmdir / unlink
Remove(p) ==
    /\ p # Top /\ exists(p) /\ Below(p) = {}
    /\ kind' = [kind EXCEPT ![p] = "none"]
    /\ content' = [content EXCEPT ![p] = << >>]
    /\ UNCHANGED mtime
    /\ EnvGhost

\* Edits that move the modification time of each entry of S forward: a
\* write to a file, an entry added to or removed from a directory, utime().
\* A modification time is only ever read on the path of an object, and
\* compared with the one the object stored, so the edits of paths that have
\* no object are left out.
Touch(S) ==
    /\ S # {} /\ S \subseteq DOMAIN nodes
    /\ \A p \in S : exists(p)
    /\ mtime' = [p \in Paths |-> IF p \in S THEN mtime[p] + 1 ELSE mtime[p]]
    /\ UNCHANGED << kind, content >>
    /\ EnvGhost

\* a content edit that leaves the modification time as it was (an edit
\* within the granularity of the timestamp, or with the time restored)
Write(p, c) ==
    /\ p \in DOMAIN nodes
    /\ isfile(p) /\ c # content[p]
    /\ content' = [content EXCEPT ![p] = c]
    /\ UNCHANGED << kind, mtime >>
    /\ EnvGhost

\* ------------------------------------------------------ the program's calls
\* r = Directory(path, None, hash_files, recursive, recursive_depth) on a
\* path that exists; r is assigned only when the constructor returns
Construct(path, hash_files, recursive, recursive_depth) ==
    LET st == Directory_init(path, {}, hash_files, recursive, recursive_depth,
                 [ nodes |-> EmptyTree, file_count |-> file_count,
                   scanned |-> {}, err |-> NoErr ])
    IN  /\ exists(path)
        /\ st.file_count <= MaxFileCount
        /\ file_count' = st.file_count
        /\ last' = [NoLast EXCEPT !.op = "construct", !.path = path,
                       !.hash_files = hash_files, !.err = st.err,
                       !.returned = (st.err = NoErr),
                       !.scanned = st.scanned, !.created = DOMAIN st.nodes,
                       !.counted = st.file_count - file_count]
        /\ IF st.err = NoErr
           THEN /\ root' = {path}
                /\ nodes' = st.nodes
                /\ clean' = TRUE
                /\ edited' = FALSE
                /\ firstDone' = FALSE
           ELSE UNCHANGED << root, nodes, clean, edited, firstDone >>
        /\ UNCHANGED << kind, mtime, content, drift >>

\* File(path, None), the object dropped at once
ConstructFile(path) ==
    LET st == File_init(path, {},
                 [ nodes |-> EmptyTree, file_count |-> file_count,
                   scanned |-> {}, err |-> NoErr ])
    IN  /\ exists(path)
        /\ last' = [NoLast EXCEPT !.op = "constructFile", !.path = path,
                       !.err = st.err, !.scanned = st.scanned,
                       !.created = DOMAIN st.nodes,
                       !.counted = st.file_count - file_count]
        /\ file_count' = st.file_count
        /\ UNCHANGED << kind, mtime, content, drift, root, nodes,
                        clean, edited, firstDone >>

\* n.refresh() on an object n of the tree
Refresh(p) ==
    /\ p \in DOMAIN nodes
    /\ LET r == refresh(p, nodes) IN
       /\ nodes' = r.nodes
       /\ last' = [NoLast EXCEPT !.op = "refresh", !.path = p,
                      !.err = r.err, !.ret = r.refreshed,
                      !.visited = r.visited,
                      !.preStale = (\E n \in Subtree(p, nodes) : Stale(n, nodes)),
                      !.preClean = clean,
                      !.afterEdit = (p \in root /\ edited),
                      !.second = (p \in root /\ firstDone),
                      !.changed = (r.nodes # nodes)]
       /\ clean' = ((clean \/ p \in root) /\ ~r.refreshed /\ r.err = NoErr)
       /\ edited' = FALSE
       /\ firstDone' = (p \in root /\ edited /\ r.err = NoErr)
    /\ UNCHANGED << kind, mtime, content, drift, root, file_count >>

\* n.hash on a File n of the tree
ReadHash(p) ==
    /\ p \in DOMAIN nodes /\ nodes[p].is_file
    /\ LET h == File_hash(p, nodes) IN
       /\ nodes' = h.nodes
       /\ last' = [NoLast EXCEPT !.op = "hash", !.path = p, !.err = h.err,
                      !.hash = h.ret, !.changed = (h.nodes # nodes)]
    /\ UNCHANGED << kind, mtime, content, drift, root, file_count,
                    clean, edited, firstDone >>

\* Out-of-band changes and the calls that read a tree, around one
\* construction: the caller builds a tree once, with the default
\* recursive=False, and then refreshes it and reads hashes while the
\* filesystem changes under it.  Special entries, which only make a
\* construction fail, are left to SpecBuild.
Next ==
    \/ \E p \in Paths, k \in {"dir", "file"} : MkEntry(p, k)
    \/ \E p \in Paths : Remove(p)
    \/ \E S \in SUBSET DOMAIN nodes : Touch(S)
    \/ \E p \in Paths, c \in Contents : Write(p, c)
    \/ \E p \in Paths, h \in BOOLEAN, d \in Budgets :
          root = {} /\ Construct(p, h, FALSE, d)
    \/ \E p \in Paths : Refresh(p)
    \/ \E p \in Paths : ReadHash(p)

Spec == Init /\ [][Next]_vars

\* Any number of constructions, of Directories and of Files, successful or
\* not, over a filesystem that is set up before the first tree exists and
\* is left alone afterwards.
NextBuild ==
    \/ \E p \in Paths, k \in {"dir", "file", "other"} :
          root = {} /\ MkEntry(p, k)
    \/ \E p \in Paths : root = {} /\ Remove(p)
    \/ \E p \in Paths, h \in BOOLEAN, r \in BOOLEAN, d \in Budgets :
          Construct(p, h, r, d)
    \/ \E p \in Paths : ConstructFile(p)
    \/ \E p \in Paths : Refresh(p)
    \/ \E p \in Paths : ReadHash(p)

SpecBuild == Init /\ [][NextBuild]_vars

\* The calls of Spec for a caller who asks for hashing: the one tree is
\* built with hash_files=True.
NextHash ==
    \/ \E p \in Paths, k \in {"dir", "file"} : MkEntry(p, k)
    \/ \E p \in Paths : Remove(p)
    \/ \E S \in SUBSET DOMAIN nodes : Touch(S)
    \/ \E p \in Paths, c \in Contents : Write(p, c)
    \/ \E p \in Paths, d \in Budgets : root = {} /\ Construct(p, TRUE, FALSE, d)
    \/ \E p \in Paths : Refresh(p)
    \/ \E p \in Paths : ReadHash(p)

SpecHash == Init /\ [][NextHash]_vars

\* ------------------------------------------------------------- properties
RootRefresh == last.op = "refresh" /\ last.path \in root /\ last.err = NoErr

DirRefresh ==
    last.op = "refresh" /\ last.err = NoErr /\ nodes[last.path].is_dir

Built == last.op = "construct" /\ last.err = NoErr

DirNodes == { d \in DOMAIN nodes : nodes[d].is_dir }

\* C1 (as claimed): the first refresh() of the root after out-of-band edits
\* of the modification times of nodes of the tree returns true, and the next
\* refresh() of the root, with no edit in between, returns false.
C1_TrueThenFalse ==
    RootRefresh => /\ last.afterEdit => last.ret
                   /\ last.second => ~last.ret

\* C2 (as claimed): a Directory.refresh() that returns has called refresh()
\* on every node of the subtree, and every node's stored last_modified then
\* equals the live modification time of its path.
C2_RefreshVisitsAll ==
    DirRefresh =>
        /\ last.visited = Subtree(last.path, nodes)
        /\ \A n \in Subtree(last.path, nodes) :
               nodes[n].last_modified = getmtime(n)

\* C3: with no filesystem change since construction or since the last
\* refresh() of the root that returned false, refresh() on any node of the
\* tree returns false without an error and changes no stored field of any
\* node, and the same is then true of the next call.
C3_RefreshWithoutChange ==
    (last.op = "refresh" /\ last.preClean) =>
        /\ last.err = NoErr
        /\ ~last.ret
        /\ ~last.changed
        /\ clean

C3_Witness ==
    /\ last.op = "refresh" /\ last.preClean /\ last.path \in root
    /\ \E f \in DOMAIN nodes : nodes[f].is_file

\* C4: a Directory.refresh() that returns, returns true if and only if, when
\* it was called, some node of the subtree had a stored last_modified
\* different from the live modification time of its path (or, hashing being
\* enabled on a File, a stored hash different from the hash of its content).
C4_TrueIffStale == DirRefresh => (last.ret <=> last.preStale)

C4_Witness ==
    DirRefresh /\ last.ret /\ Cardinality(last.visited) >= 2

\* C5 (as claimed): after Directory(..., hash_files=True) hashing is enabled
\* on the root and on every descendant, and every File holds a hash.
C5_HashFilesPropagated ==
    (Built /\ last.hash_files) =>
        \A n \in DOMAIN nodes :
            /\ nodes[n].hash_files
            /\ nodes[n].is_file => nodes[n].has_hash

\* C6 (as claimed): with hashing disabled, a read of `hash` on a File whose
\* path is a regular file raises nothing and returns the hash of the current
\* content (the empty value for an empty file).
C6_HashReadIsLive ==
    (last.op = "hash" /\ ~nodes[last.path].hash_files /\ isfile(last.path)) =>
        /\ last.err = NoErr
        /\ last.hash = File_hash_file(last.path)

\* C7 (as claimed): after Directory(..., recursive_depth=0) every directory
\* and every regular file at any depth below the root is a node of the tree,
\* of the matching variant.
C7_DepthZeroExhausts ==
    (Built /\ nodes[last.path].recursive_depth = 0) =>
        \A q \in Below(last.path) :
            (isdir(q) \/ isfile(q)) =>
                q \in DOMAIN nodes /\ nodes[q].is_dir = isdir(q)

C9_ValidationComesFirst ==
    /\ (last.op = "construct" /\ ~isdir(last.path)) =>
           /\ last.err = << "NotADirectoryError", last.path >>
           /\ last.scanned = {} /\ last.created = {} /\ last.counted = 0
           /\ ~last.returned
    /\ (last.op = "constructFile" /\ ~isfile(last.path)) =>
           /\ last.err = << "FileExistsError", last.path >>
           /\ last.scanned = {} /\ last.created = {} /\ last.counted = 0

C9_Witness ==
    last.op = "construct" /\ isfile(last.path) /\ Len(last.err) = 2

\* C10: when a directory listed during a Directory construction has an entry
\* that is neither a directory nor a regular file, the construction of the
\* root raises EnvironmentError naming such an entry of a listed directory,
\* and the caller gets no tree.
C10_UnknownEntryAborts ==
    (last.op = "construct" /\ \E d \in last.scanned : OtherEntries(d) # {}) =>
        /\ Len(last.err) = 2
        /\ last.err[1] = "EnvironmentError"
        /\ \E d \in last.scanned : last.err[2] \in OtherEntries(d)
        /\ ~last.returned

C10_Witness ==
    /\ last.op = "construct" /\ Len(last.err) = 2
    /\ last.err[1] = "EnvironmentError"
    /\ Len(last.err[2]) = Len(last.path) + 2

\* ---------------------------------------------- C11 .. C20
FileRefresh ==
    last.op = "refresh" /\ last.err = NoErr /\ nodes[last.path].is_file

\* C11 (as claimed): in a tree built with hash_files=True, a File.refresh()
\* that returns leaves a cached hash equal to the hash of the current content
\* of the file, and it returns true whenever the stored state of the File
\* differed from the live one (the modification time, or the content with
\* the modification time unchanged).
C11_RefreshRehashes ==
    FileRefresh =>
        /\ nodes[last.path].has_hash
        /\ nodes[last.path].hash = File_hash_file(last.path)
        /\ last.preStale => last.ret

\* C12 (as claimed): in a tree built with hash_files=True, a read of `hash`
\* on a File whose path is a regular file raises nothing, returns the cached
\* value and changes neither the cached hash nor the stored filesize.
C12_HashReadIsCached ==
    (last.op = "hash" /\ isfile(last.path)) =>
        /\ last.err = NoErr
        /\ ~last.changed
        /\ nodes[last.path].has_hash /\ last.hash = nodes[last.path].hash

\* C13: right after a successful construction every Directory has `empty`
\* true exactly when the listing of its path has no entry; a Directory whose
\* `empty` is true has no sub_dirs and no files; and no later call or
\* filesystem change alters the `empty` of a Directory of the tree.
C13_EmptyIsScanTime ==
    /\ [](\A d \in DirNodes :
             /\ Built => (nodes[d].empty <=> Len(listdir(d)) = 0)
             /\ nodes[d].empty =>
                    nodes[d].sub_dirs = << >> /\ nodes[d].files = << >>)
    /\ [][\A d \in DirNodes :
             d \in DOMAIN nodes' /\ nodes'[d].empty = nodes[d].empty]_vars

C13_Witness ==
    /\ last.op = "refresh" /\ last.err = NoErr
    /\ \E d \in DirNodes : nodes[d].empty /\ Len(listdir(d)) > 0

\* the depth of q below the path of the last call
DepthBelow(q) == Len(q) - Len(last.path)

C16_StructureIsFrozen ==
    [][nodes # EmptyTree =>
          /\ DOMAIN nodes' = DOMAIN nodes
          /\ \A n \in DOMAIN nodes :
                /\ nodes'[n].sub_dirs = nodes[n].sub_dirs
                /\ nodes'[n].files = nodes[n].files
                /\ nodes'[n].path = nodes[n].path
                /\ nodes'[n].name = nodes[n].name
                /\ nodes'[n].parent_dir = nodes[n].parent_dir
                /\ nodes'[n].is_dir = nodes[n].is_dir
                /\ nodes'[n].is_file = nodes[n].is_file]_vars

C16_Witness ==
    /\ DirRefresh
    /\ \E D \in DirNodes \cap last.visited :
           \E q \in FileEntries(D) : q \notin DOMAIN nodes

Children(D) == nodes[D].sub_dirs \o nodes[D].files

\* C18: in the tree the caller holds, every node of a Directory's sub_dirs
\* and files has that Directory as parent_dir, no node is twice in the child
\* lists of one Directory or in those of two Directories, the root's
\* parent_dir is the caller's None, and has_parent() is false for the root
\* and for no other node.
C18_ParentLinkage ==
    /\ \A D \in DirNodes :
          /\ \A i \in 1 .. Len(Children(D)) :
                /\ Children(D)[i] \in DOMAIN nodes
                /\ nodes[Children(D)[i]].parent_dir = {D}
                /\ \A j \in 1 .. Len(Children(D)) :
                       Children(D)[i] = Children(D)[j] => i = j
          /\ \A E \in DirNodes \ {D} :
                Range(Children(D)) \cap Range(Children(E)) = {}
    /\ \A n \in DOMAIN nodes :
          /\ n \in root => nodes[n].parent_dir = {}
          /\ has_parent(n, nodes) <=> n \notin root

C18_Witness ==
    \E f \in DOMAIN nodes :
        /\ nodes[f].is_file /\ has_parent(f, nodes)
        /\ nodes[f].parent_dir \cap root = {}

TreeOf(path, hash_files, recursive, recursive_depth) ==
    Directory_init(path, {}, hash_files, recursive, recursive_depth,
        [ nodes |-> EmptyTree, file_count |-> 0, scanned |-> {},
          err |-> NoErr ])

====
